---- MODULE Spec2Model ----
(***************************************************************************)
(* Model of ethtool-exporter.py: the EthtoolCollector class (argument      *)
(* parsing, name filter, per-interface counter parsing, snapshot building) *)
(* and the __main__ publication scheduler (HTTP serving, periodic and      *)
(* one-shot text file writes).                                             *)
(*                                                                         *)
(* Text is modelled as sequences of one-character strings, so that         *)
(* str.strip, str.split(': '), float() and re.match are computed and not   *)
(* assumed.  A Python optional value is <<>> (None) or <<v>>.              *)
(***************************************************************************)
EXTENDS Integers, Sequences, FiniteSets, TLC

\* ------------------------------------------------------------------ bounds
MaxLines == 3
MaxCycles == 2
MaxIdleSleeps == 1

\* --------------------------------------------------------- Python values
None == <<>>
Some(v) == <<v>>

\* bool(x) of an optional int: None and 0 are falsy
TruthyInt(o) == o # None /\ o[1] # 0
\* bool(x) of an optional str (a TLA+ string): None and '' are falsy
TruthyStr(o) == o # None /\ o[1] # ""
\* bool(x) of an optional str held as a character sequence
TruthySeq(o) == o # None /\ o[1] # <<>>

\* ----------------------------------------------------------- str methods
Whitespace == {" "}

RECURSIVE LStrip(_)
LStrip(s) ==
    IF s # <<>> /\ Head(s) \in Whitespace THEN LStrip(Tail(s)) ELSE s

RECURSIVE RStrip(_)
RStrip(s) ==
    IF s # <<>> /\ s[Len(s)] \in Whitespace
    THEN RStrip(SubSeq(s, 1, Len(s) - 1))
    ELSE s

\* str.strip()
Strip(s) == RStrip(LStrip(s))

\* indexes at which the separator ': ' starts in s
SepAt(s) == {i \in 1..(Len(s) - 1) : s[i] = ":" /\ s[i + 1] = " "}

Min(S) == CHOOSE x \in S : \A y \in S : x <= y

\* str.split(': '): cut at every occurrence of the separator, left to right
RECURSIVE Split(_)
Split(s) ==
    IF SepAt(s) = {}
    THEN <<s>>
    ELSE LET i == Min(SepAt(s))
         IN  <<SubSeq(s, 1, i - 1)>> \o Split(SubSeq(s, i + 2, Len(s)))

Digits == {"0", "1", "2", "9"}
DigitVal(c) == CASE c = "0" -> 0 [] c = "1" -> 1 [] c = "2" -> 2 [] c = "9" -> 9

\* float(v) raises ValueError unless v is a number; within the alphabet of
\* the model a number is a non-empty run of decimal digits
FloatOk(v) == v # <<>> /\ \A i \in 1..Len(v) : v[i] \in Digits

RECURSIVE Float(_)
Float(v) ==
    IF v = <<>> THEN 0
    ELSE 10 * Float(SubSeq(v, 1, Len(v) - 1)) + DigitVal(v[Len(v)])

\* ---------------------------------------------------------------- re.match
\* A pattern is a sequence of tokens: "^", "$", ".*" or a literal character.
\* MatchFrom(p, i, s, j): tokens i.. of p match s from position j on.
RECURSIVE MatchFrom(_, _, _, _)
MatchFrom(p, i, s, j) ==
    IF i > Len(p) THEN TRUE
    ELSE IF p[i] = "^" THEN j = 1 /\ MatchFrom(p, i + 1, s, j)
    ELSE IF p[i] = "$" THEN j = Len(s) + 1 /\ MatchFrom(p, i + 1, s, j)
    ELSE IF p[i] = ".*" THEN \E k \in j..(Len(s) + 1) : MatchFrom(p, i + 1, s, k)
    ELSE j <= Len(s) /\ s[j] = p[i] /\ MatchFrom(p, i + 1, s, j + 1)

\* re.match(pattern, string): a match anchored at the start of the string
ReMatch(p, s) == MatchFrom(p, 1, s, 1)

\* ------------------------------------------------------------- name filter
whitelist_blacklist_check(a, stat_name) ==
    IF TruthySeq(a.whitelist_regex)
    THEN ReMatch(a.whitelist_regex[1], stat_name)
    ELSE IF TruthySeq(a.blacklist_regex)
         THEN ~ReMatch(a.blacklist_regex[1], stat_name)
         ELSE TRUE

\* ------------------------------------------------------------- line parser
Header == <<"N", "I", "C", " ", "s", "t", "a", "t", "i", "s", "t", "i", "c", "s", ":">>

\* the line is dropped before parsing (empty line or the header)
Dropped(line) == line = <<>> \/ line = Header

\* the try block of update_ethtool_stats: <<>> on ValueError, else <<[key, value]>>
ParseLine(line) ==
    LET parts == Split(Strip(line))
    IN  IF Len(parts) # 2 THEN None
        ELSE LET key == Strip(parts[1])
                 value == Strip(parts[2])
             IN  IF FloatOk(value)
                 THEN Some([key |-> key, value |-> Float(value)])
                 ELSE None

\* variant: a name already seen is emitted again
EmitAlways(ks, key) == TRUE

\* the decision of `if key not in key_set`
Emit(ks, key) == key \notin ks

\* variant: a line that fails to parse ends the loop (`break`)
AfterBadLineBreak(i, n) == n + 1

\* index of the next line after a line that failed to parse (`continue`)
AfterBadLine(i, n) == i + 1

\* --------------------------------------------------------- command line
Threads == {"main", "h1", "h2"}
Handlers == Threads \ {"main"}

\* variant: one key_set kept on the collector and shared by all threads
KeySetShared(t) == "main"

\* the key_set a call of update_ethtool_stats in thread t works on: a local
KeySetOf(t) == t

VARIABLES
    argv,        \* the command line as supplied
    args,        \* self.args: None before _parse_args, then the argument record
    pc,          \* position of each thread
    exit_status, \* None while the process runs, else its exit status
    http_started,\* start_http_server was called
    mode,        \* branch of __main__ that was entered
    ifaces,      \* per thread: interfaces the enumerator still has to yield
    data,        \* per thread: the lines of the interface being parsed
    idx,         \* per thread: index of the next line of data
    key_set,     \* per call of update_ethtool_stats: names already emitted
    parsed,      \* per thread: the (key, value) pairs the try block produced
    gauge,       \* per thread: the GaugeMetricFamily being built
    enumerated,  \* per thread: interfaces yielded in the current tick
    fetched,     \* per thread: command results of the current tick
    response,    \* per handler: the snapshot returned to the scrape
    textfile,    \* content of the text file as last written
    writes,      \* number of write_to_textfile calls completed
    ticks,       \* number of collections started
    slept,       \* durations of the completed time.sleep calls of __main__
    fatal        \* the fatal environment error a collection hit, or "none"

vars == <<argv, args, pc, exit_status, http_started, mode, ifaces, data, idx,
          key_set, parsed, gauge, enumerated, fetched, response, textfile, writes,
          ticks, slept, fatal>>

tickVars == <<ifaces, data, idx, key_set, parsed, gauge, enumerated, fetched>>
procVars == <<argv, args, exit_status, http_started, mode>>
fileVars == <<textfile, writes, slept>>

Args == args[1]
Running == exit_status = None

\* argparse: the two mutually exclusive groups (the first one required)
ArgparseOk(v) ==
    /\ (v.textfile_name = None) # (v.listen = None)
    /\ v.whitelist_regex = None \/ v.blacklist_regex = None

\* _parse_args after parser.parse_args: the exit status, or the argument record
parse_args(v) ==
    IF ~ArgparseOk(v) THEN [exit |-> Some(2), args |-> None]
    ELSE IF v.oneshot /\ ~TruthyStr(v.textfile_name)
    THEN [exit |-> Some(1), args |-> None]
    ELSE IF TruthyInt(v.interval) /\ ~TruthyStr(v.textfile_name)
    THEN [exit |-> Some(1), args |-> None]
    ELSE [exit |-> None,
          args |-> Some([v EXCEPT !.interval =
                            IF ~TruthyInt(v.interval) THEN Some(5) ELSE @])]

\* collector = EthtoolCollector(); registry.register(collector)
ParseArgs ==
    /\ pc["main"] = "start"
    /\ LET r == parse_args(argv)
       IN  /\ args' = r.args
           /\ exit_status' = r.exit
           /\ pc' = [pc EXCEPT !["main"] =
                        IF r.exit = None THEN "dispatch" ELSE "exited"]
    /\ UNCHANGED <<argv, http_started, mode, response, ticks, fatal>>
    /\ UNCHANGED tickVars
    /\ UNCHANGED fileVars

\* if args['listen']: start_http_server(...)
StartHttpServer ==
    /\ pc["main"] = "dispatch"
    /\ TruthyStr(Args.listen)
    /\ http_started' = TRUE
    /\ mode' = "continuous-serve"
    /\ pc' = [pc EXCEPT !["main"] = "serve_sleep"]
    /\ UNCHANGED <<argv, args, exit_status, response, ticks, fatal>>
    /\ UNCHANGED tickVars
    /\ UNCHANGED fileVars

\* while True: time.sleep(3600)
ServeSleep ==
    /\ pc["main"] = "serve_sleep"
    /\ Len(slept) < MaxIdleSleeps
    /\ slept' = Append(slept, 3600)
    /\ UNCHANGED <<pc, response, ticks, fatal, textfile, writes>>
    /\ UNCHANGED procVars
    /\ UNCHANGED tickVars

\* if args['textfile_name']: while True:
EnterFileLoop ==
    /\ pc["main"] = "dispatch"
    /\ ~TruthyStr(Args.listen)
    /\ TruthyStr(Args.textfile_name)
    /\ mode' = IF Args.oneshot THEN "one-shot-file-write"
               ELSE "periodic-file-write"
    /\ pc' = [pc EXCEPT !["main"] = "loop_top"]
    /\ UNCHANGED <<argv, args, exit_status, http_started, response, ticks, fatal>>
    /\ UNCHANGED tickVars
    /\ UNCHANGED fileVars

\* neither `if` of __main__ is taken: the script ends, status 0
FallOffEnd ==
    /\ pc["main"] = "dispatch"
    /\ ~TruthyStr(Args.listen)
    /\ ~TruthyStr(Args.textfile_name)
    /\ exit_status' = Some(0)
    /\ pc' = [pc EXCEPT !["main"] = "exited"]
    /\ UNCHANGED <<argv, args, http_started, mode, response, ticks, fatal>>
    /\ UNCHANGED tickVars
    /\ UNCHANGED fileVars

\* collector.collect(): calling the generator function only creates the
\* generator, which is dropped; write_to_textfile then collects the registry
CallCollect ==
    /\ pc["main"] = "loop_top"
    /\ writes < MaxCycles
    /\ pc' = [pc EXCEPT !["main"] = "collect"]
    /\ UNCHANGED <<response, ticks, fatal>>
    /\ UNCHANGED procVars
    /\ UNCHANGED tickVars
    /\ UNCHANGED fileVars

\* ------------------------------------------------------------ collection
\* the enumerator: non-virtual symlinks whose name matches interface_regex
RECURSIVE find_physical_interfaces(_, _)
find_physical_interfaces(a, listing) ==
    IF listing = <<>> THEN <<>>
    ELSE LET e == Head(listing)
             rest == find_physical_interfaces(a, Tail(listing))
         IN  IF e.islink /\ ~e.virtual /\ ReMatch(a.interface_regex, e.name)
             THEN <<e.name>> \o rest
             ELSE rest

\* sys.exit(1), or an uncaught exception, raised in thread t: in the main
\* thread the interpreter exits with status 1; in a request thread of the
\* HTTP server only that request ends
Raise(t, cause) ==
    /\ fatal' = cause
    /\ IF t = "main"
       THEN /\ exit_status' = Some(1)
            /\ pc' = [pc EXCEPT ![t] = "exited"]
       ELSE /\ exit_status' = exit_status
            /\ pc' = [pc EXCEPT ![t] = "aborted"]

\* a scrape request reaches the HTTP server: registry.collect() in a new thread
ScrapeRequest(t) ==
    /\ t \in Handlers
    /\ Running
    /\ http_started
    /\ pc[t] = "idle"
    /\ pc' = [pc EXCEPT ![t] = "collect"]
    /\ UNCHANGED <<response, ticks, fatal>>
    /\ UNCHANGED procVars
    /\ UNCHANGED tickVars
    /\ UNCHANGED fileVars

\* collect() up to the first next() of find_physical_interfaces: os.listdir
\* raises OSError
ListDirFails(t) ==
    /\ Running
    /\ pc[t] = "collect"
    /\ ticks' = ticks + 1
    /\ Raise(t, "listdir")
    /\ UNCHANGED <<argv, args, http_started, mode, response>>
    /\ UNCHANGED tickVars
    /\ UNCHANGED fileVars

\* collect() up to the first next() of find_physical_interfaces: a fresh
\* gauge, and the listing of /sys/class/net
ListDir(t, listings) ==
    /\ Running
    /\ pc[t] = "collect"
    /\ \E listing \in listings :
          LET found == find_physical_interfaces(Args, listing)
          IN  /\ ifaces' = [ifaces EXCEPT ![t] = found]
              /\ enumerated' = [enumerated EXCEPT ![t] = found]
    /\ gauge' = [gauge EXCEPT ![t] = <<>>]
    /\ fetched' = [fetched EXCEPT ![t] = <<>>]
    /\ ticks' = ticks + 1
    /\ pc' = [pc EXCEPT ![t] = "next_iface"]
    /\ UNCHANGED <<data, idx, key_set, parsed, response, fatal>>
    /\ UNCHANGED procVars
    /\ UNCHANGED fileVars

\* subprocess.Popen raises FileNotFoundError: sys.exit(1)
PopenNotFound(t) ==
    /\ Running
    /\ pc[t] = "next_iface"
    /\ ifaces[t] # <<>>
    /\ Raise(t, "not_found")
    /\ UNCHANGED <<argv, args, http_started, mode, response, ticks>>
    /\ UNCHANGED tickVars
    /\ UNCHANGED fileVars

\* subprocess.Popen raises PermissionError: sys.exit(1)
PopenDenied(t) ==
    /\ Running
    /\ pc[t] = "next_iface"
    /\ ifaces[t] # <<>>
    /\ Raise(t, "denied")
    /\ UNCHANGED <<argv, args, http_started, mode, response, ticks>>
    /\ UNCHANGED tickVars
    /\ UNCHANGED fileVars

\* variant: a non-zero return code ends the loop over the interfaces
ReturnNonZeroBreaks(t) ==
    /\ Running
    /\ pc[t] = "next_iface"
    /\ ifaces[t] # <<>>
    /\ fetched' = [fetched EXCEPT ![t] =
                      Append(@, [iface |-> Head(ifaces[t]), rc |-> 1, data |-> <<>>])]
    /\ ifaces' = [ifaces EXCEPT ![t] = <<>>]
    /\ UNCHANGED <<pc, data, idx, key_set, parsed, gauge, enumerated, response,
                   ticks, fatal>>
    /\ UNCHANGED procVars
    /\ UNCHANGED fileVars

\* proc.returncode != 0: log and return, the loop of collect goes on
ReturnNonZero(t) ==
    /\ Running
    /\ pc[t] = "next_iface"
    /\ ifaces[t] # <<>>
    /\ fetched' = [fetched EXCEPT ![t] =
                      Append(@, [iface |-> Head(ifaces[t]), rc |-> 1, data |-> <<>>])]
    /\ ifaces' = [ifaces EXCEPT ![t] = Tail(@)]
    /\ UNCHANGED <<pc, data, idx, key_set, parsed, gauge, enumerated, response,
                   ticks, fatal>>
    /\ UNCHANGED procVars
    /\ UNCHANGED fileVars

\* proc.returncode == 0: data = the lines of the output, key_set = set()
ReadOutput(t, outputs) ==
    /\ Running
    /\ pc[t] = "next_iface"
    /\ ifaces[t] # <<>>
    /\ \E out \in outputs :
          /\ data' = [data EXCEPT ![t] = out]
          /\ fetched' = [fetched EXCEPT ![t] =
                            Append(@, [iface |-> Head(ifaces[t]), rc |-> 0, data |-> out])]
    /\ idx' = [idx EXCEPT ![t] = 1]
    /\ key_set' = [key_set EXCEPT ![KeySetOf(t)] = {}]
    /\ parsed' = [parsed EXCEPT ![t] = <<>>]
    /\ pc' = [pc EXCEPT ![t] = "parse"]
    /\ UNCHANGED <<ifaces, gauge, enumerated, response, ticks, fatal>>
    /\ UNCHANGED procVars
    /\ UNCHANGED fileVars

\* one iteration of `for line in data`
ParseStep(t) ==
    /\ Running
    /\ pc[t] = "parse"
    /\ LET line == data[t][idx[t]]
           n == Len(data[t])
           parsed_line == ParseLine(line)
           iface == Head(ifaces[t])
           ks == key_set[KeySetOf(t)]
           next == IF ~Dropped(line) /\ parsed_line = None
                   THEN AfterBadLine(idx[t], n)
                   ELSE idx[t] + 1
           emits == /\ ~Dropped(line)
                    /\ parsed_line # None
                    /\ whitelist_blacklist_check(Args, parsed_line[1].key)
                    /\ Emit(ks, parsed_line[1].key)
       IN  /\ parsed' = [parsed EXCEPT ![t] =
                            IF ~Dropped(line) /\ parsed_line # None
                            THEN Append(@, parsed_line[1]) ELSE @]
           /\ IF emits
              THEN /\ gauge' = [gauge EXCEPT ![t] =
                                  Append(@, [device |-> iface,
                                             type |-> parsed_line[1].key,
                                             value |-> parsed_line[1].value])]
                   /\ key_set' = [key_set EXCEPT ![KeySetOf(t)] =
                                     @ \cup {parsed_line[1].key}]
              ELSE UNCHANGED <<gauge, key_set>>
           /\ idx' = [idx EXCEPT ![t] = next]
           /\ IF next > n
              THEN /\ pc' = [pc EXCEPT ![t] = "next_iface"]
                   /\ ifaces' = [ifaces EXCEPT ![t] = Tail(@)]
              ELSE UNCHANGED <<pc, ifaces>>
    /\ UNCHANGED <<data, enumerated, fetched, response, ticks, fatal>>
    /\ UNCHANGED procVars
    /\ UNCHANGED fileVars

\* the generator of collect yields the gauge; the HTTP handler sends it
ScrapeRespond(t) ==
    /\ t \in Handlers
    /\ Running
    /\ pc[t] = "next_iface"
    /\ ifaces[t] = <<>>
    /\ response' = [response EXCEPT ![t] = Some(gauge[t])]
    /\ pc' = [pc EXCEPT ![t] = "responded"]
    /\ UNCHANGED <<ticks, fatal>>
    /\ UNCHANGED procVars
    /\ UNCHANGED tickVars
    /\ UNCHANGED fileVars

\* the generator of collect yields the gauge; write_to_textfile writes it
WriteToTextfile ==
    /\ Running
    /\ pc["main"] = "next_iface"
    /\ ifaces["main"] = <<>>
    /\ textfile' = Some(gauge["main"])
    /\ writes' = writes + 1
    /\ pc' = [pc EXCEPT !["main"] = "check_oneshot"]
    /\ UNCHANGED <<slept, response, ticks, fatal>>
    /\ UNCHANGED procVars
    /\ UNCHANGED tickVars

\* variant: the oneshot flag is ignored
ExitAfterWriteNever(a) == FALSE

\* `if collector.args['oneshot']`
ExitAfterWrite(a) == a.oneshot

\* sys.exit(0)
OneshotExit ==
    /\ pc["main"] = "check_oneshot"
    /\ ExitAfterWrite(Args)
    /\ exit_status' = Some(0)
    /\ pc' = [pc EXCEPT !["main"] = "exited"]
    /\ UNCHANGED <<argv, args, http_started, mode, response, ticks, fatal>>
    /\ UNCHANGED tickVars
    /\ UNCHANGED fileVars

\* time.sleep(args['interval'])
Sleep ==
    /\ pc["main"] = "check_oneshot"
    /\ ~ExitAfterWrite(Args)
    /\ Args.interval[1] >= 0
    /\ slept' = Append(slept, Args.interval[1])
    /\ pc' = [pc EXCEPT !["main"] = "loop_top"]
    /\ UNCHANGED <<textfile, writes, response, ticks, fatal>>
    /\ UNCHANGED procVars
    /\ UNCHANGED tickVars

\* time.sleep of a negative length raises ValueError, which nothing catches
SleepRaises ==
    /\ pc["main"] = "check_oneshot"
    /\ ~ExitAfterWrite(Args)
    /\ Args.interval[1] < 0
    /\ exit_status' = Some(1)
    /\ pc' = [pc EXCEPT !["main"] = "exited"]
    /\ UNCHANGED <<argv, args, http_started, mode, response, ticks, fatal>>
    /\ UNCHANGED tickVars
    /\ UNCHANGED fileVars

\* ------------------------------------------------------------------ inputs
\* entries of /sys/class/net
E0 == [name |-> <<"e", "0">>, islink |-> TRUE, virtual |-> FALSE]
E1 == [name |-> <<"e", "1">>, islink |-> TRUE, virtual |-> FALSE]
Lo == [name |-> <<"l", "o">>, islink |-> TRUE, virtual |-> TRUE]
Bm == [name |-> <<"b", "m">>, islink |-> FALSE, virtual |-> FALSE]

Listings == {<<E0, E1, Lo>>, <<Bm, E1, E0>>, <<Lo>>}
ListingsU == {<<Lo, E0, E1>>}

\* raw lines of `ethtool -S`
LA1 == <<"a", ":", " ", "1">>
LA2sp == <<" ", "a", ":", " ", "2", " ">>
LB10 == <<"b", ":", " ", "1", "0">>
LAB2 == <<" ", " ", "a", "b", ":", " ", "2">>
LAsp9 == <<"a", " ", ":", " ", " ", "9">>
LAx == <<"a", ":", " ", "x">>
LNoSep == <<"a", " ", "1">>
LTwoSep == <<"b", ":", " ", "1", ":", " ", "2">>
LBlank == <<" ", " ">>

Lines == {<<>>, Header, LA1, LA2sp, LB10, LAB2, LAsp9, LAx, LNoSep, LTwoSep,
          LBlank}

RECURSIVE SeqsUpTo(_, _)
SeqsUpTo(S, n) ==
    IF n = 0 THEN {<<>>}
    ELSE LET shorter == SeqsUpTo(S, n - 1)
         IN  shorter \cup {Append(q, x) : q \in shorter, x \in S}

\* outputs of one command run: split('\n') gives at least one line
OutputsU == SeqsUpTo(Lines, MaxLines) \ {<<>>}
Outputs == {<<Header, LA1, LA2sp, <<>>>>, <<LB10, LAx>>}

PatA == <<"a">>
PatAEnd == <<"a", "$">>
PatB == <<"^", "b", "$">>
PatAll == <<".*">>

Filters == {<<None, None>>, <<None, Some(PatA)>>, <<Some(PatA), Some(PatB)>>}
FiltersU == {<<None, None>>, <<Some(PatA), None>>, <<Some(PatAEnd), None>>,
             <<Some(<<>>), None>>, <<None, Some(PatA)>>, <<None, Some(PatB)>>,
             <<None, Some(<<>>)>>}

Argvs ==
    {[textfile_name |-> f, listen |-> l, interval |-> i, oneshot |-> o,
      interface_regex |-> PatAll,
      whitelist_regex |-> wb[1], blacklist_regex |-> wb[2]] :
        f \in {None, Some(""), Some("f")},
        l \in {None, Some(""), Some("l")},
        i \in {None, Some(-1), Some(0), Some(2)},
        o \in BOOLEAN,
        wb \in Filters}

ArgvsU ==
    {[textfile_name |-> Some("f"), listen |-> None, interval |-> None,
      oneshot |-> TRUE, interface_regex |-> <<"e", "0">>,
      whitelist_regex |-> wb[1], blacklist_regex |-> wb[2]] : wb \in FiltersU}

\* ----------------------------------------------------------- specification
InitWith(argvs) ==
    /\ argv \in argvs
    /\ args = None
    /\ pc = [t \in Threads |-> IF t = "main" THEN "start" ELSE "idle"]
    /\ exit_status = None
    /\ http_started = FALSE
    /\ mode = "none"
    /\ ifaces = [t \in Threads |-> <<>>]
    /\ data = [t \in Threads |-> <<>>]
    /\ idx = [t \in Threads |-> 1]
    /\ key_set = [t \in Threads |-> {}]
    /\ parsed = [t \in Threads |-> <<>>]
    /\ gauge = [t \in Threads |-> <<>>]
    /\ enumerated = [t \in Threads |-> <<>>]
    /\ fetched = [t \in Threads |-> <<>>]
    /\ response = [t \in Handlers |-> None]
    /\ textfile = None
    /\ writes = 0
    /\ ticks = 0
    /\ slept = <<>>
    /\ fatal = "none"

Init == InitWith(Argvs)

Next ==
    \/ ParseArgs
    \/ StartHttpServer
    \/ ServeSleep
    \/ EnterFileLoop
    \/ FallOffEnd
    \/ CallCollect
    \/ \E t \in Handlers : ScrapeRequest(t)
    \/ \E t \in Threads : ListDirFails(t)
    \/ \E t \in Threads : ListDir(t, Listings)
    \/ \E t \in Threads : PopenNotFound(t)
    \/ \E t \in Threads : PopenDenied(t)
    \/ \E t \in Threads : ReturnNonZero(t)
    \/ \E t \in Threads : ReadOutput(t, Outputs)
    \/ \E t \in Threads : ParseStep(t)
    \/ \E t \in Handlers : ScrapeRespond(t)
    \/ WriteToTextfile
    \/ OneshotExit
    \/ Sleep
    \/ SleepRaises

Spec == Init /\ [][Next]_vars

\* one call of update_ethtool_stats on every sequence of lines, under every
\* filter configuration: a one-shot run that finds the single interface e0
InitUpdate == InitWith(ArgvsU)

NextUpdate ==
    \/ ParseArgs
    \/ EnterFileLoop
    \/ CallCollect
    \/ ListDirFails("main")
    \/ ListDir("main", ListingsU)
    \/ PopenNotFound("main")
    \/ PopenDenied("main")
    \/ ReturnNonZero("main")
    \/ ReadOutput("main", OutputsU)
    \/ ParseStep("main")
    \/ WriteToTextfile
    \/ OneshotExit

SpecUpdate == InitUpdate /\ [][NextUpdate]_vars

\* ================================================================= claims
\* ------------------------------------------------ reference definitions
\* s without its leading and trailing blanks
Trim(s) ==
    LET solid == {i \in 1..Len(s) : s[i] # " "}
    IN  IF solid = {} THEN <<>>
        ELSE SubSeq(s, CHOOSE i \in solid : \A k \in solid : i <= k,
                       CHOOSE j \in solid : \A k \in solid : k <= j)

Numeric(v) == Len(v) > 0 /\ \A i \in 1..Len(v) : v[i] \in Digits

\* the pair a raw line stands for: the line cut at its FIRST ': '
RefPair(line) ==
    LET seps == {i \in 1..(Len(line) - 1) : line[i] = ":" /\ line[i + 1] = " "}
    IN  IF line = <<>> \/ line = Header \/ seps = {} THEN None
        ELSE LET i == CHOOSE x \in seps : \A y \in seps : x <= y
                 name == Trim(SubSeq(line, 1, i - 1))
                 val == Trim(SubSeq(line, i + 2, Len(line)))
             IN  IF Numeric(val)
                 THEN Some([key |-> name, value |-> Float(val)])
                 ELSE None

RECURSIVE RefPairs(_)
RefPairs(lines) ==
    IF lines = <<>> THEN <<>>
    ELSE RefPair(Head(lines)) \o RefPairs(Tail(lines))

\* the pairs that pass the filter and whose name was not seen before
RECURSIVE FirstOccurrences(_, _, _)
FirstOccurrences(a, pairs, seen) ==
    IF pairs = <<>> THEN <<>>
    ELSE LET p == Head(pairs)
         IN  IF whitelist_blacklist_check(a, p.key) /\ p.key \notin seen
             THEN <<p>> \o FirstOccurrences(a, Tail(pairs), seen \cup {p.key})
             ELSE FirstOccurrences(a, Tail(pairs), seen)

Triples(iface, pairs) ==
    [i \in 1..Len(pairs) |->
        [device |-> iface, type |-> pairs[i].key, value |-> pairs[i].value]]

\* the triples of gauge g that carry device iface, in order
RECURSIVE TriplesOf(_, _)
TriplesOf(g, iface) ==
    IF g = <<>> THEN <<>>
    ELSE (IF Head(g).device = iface THEN <<Head(g)>> ELSE <<>>)
         \o TriplesOf(Tail(g), iface)

\* what one interface contributes, from its command output alone
RefTriples(a, iface, lines) ==
    Triples(iface, FirstOccurrences(a, RefPairs(lines), {}))

\* the snapshot of a scrape that runs alone on the command results log
RECURSIVE Alone(_, _)
Alone(a, log) ==
    IF log = <<>> THEN <<>>
    ELSE (IF Head(log).rc = 0
          THEN RefTriples(a, Head(log).iface, Head(log).data)
          ELSE <<>>)
         \o Alone(a, Tail(log))

IfacesOf(log) == [i \in 1..Len(log) |-> log[i].iface]
Last(q) == q[Len(q)]
Front(q) == SubSeq(q, 1, Len(q) - 1)
InCall(t) == fetched[t] # <<>> /\ Last(fetched[t]).rc = 0

\* C1: within one call of update_ethtool_stats the triples added for the
\* interface have pairwise distinct counter names; they are the first
\* occurrences, with their values, of the parsed names that pass the filter,
\* and later occurrences are dropped while the call goes on.
C1_FirstOccurrenceWins ==
    \A t \in Threads :
        /\ \A i, j \in 1..Len(gauge[t]) :
              (i # j /\ gauge[t][i].device = gauge[t][j].device)
                 => gauge[t][i].type # gauge[t][j].type
        /\ InCall(t) =>
              TriplesOf(gauge[t], Last(fetched[t]).iface)
                 = Triples(Last(fetched[t]).iface,
                           FirstOccurrences(Args, parsed[t], {}))

C1_Witness ==
    /\ pc["main"] = "exited"
    /\ argv.whitelist_regex = None /\ argv.blacklist_regex = None
    /\ InCall("main")
    /\ Last(fetched["main"]).data = <<LA1, LB10, LA2sp>>
    /\ textfile = Some(<<[device |-> <<"e", "0">>, type |-> <<"a">>, value |-> 1],
                         [device |-> <<"e", "0">>, type |-> <<"b">>, value |-> 10]>>)

\* C9: the parsed pairs are exactly, in input order, those of the lines that
\* are neither empty nor the header and whose value part, after the first
\* ': ', is numeric once trimmed; any other line is skipped and the lines
\* after it are still parsed.
C9_ParsedPairs ==
    \A t \in Threads :
        InCall(t) =>
            IF pc[t] = "parse"
            THEN parsed[t] = RefPairs(SubSeq(data[t], 1, idx[t] - 1))
            ELSE parsed[t] = RefPairs(Last(fetched[t]).data)

C9_Witness ==
    /\ pc["main"] = "exited"
    /\ InCall("main")
    /\ Last(fetched["main"]).data = <<LTwoSep, LAx, LAsp9>>
    /\ parsed["main"] = <<[key |-> <<"a">>, value |-> 9]>>

\* the decision the name filter is specified to take
ClaimedInclude(a, name) ==
    IF a.whitelist_regex # None THEN ReMatch(a.whitelist_regex[1], name)
    ELSE IF a.blacklist_regex # None THEN ~ReMatch(a.blacklist_regex[1], name)
    ELSE TRUE

\* C8: for every supplied pattern value a name is included iff it matches
\* the allow-pattern at its start, resp. does not match the deny-pattern (and
\* always when neither is supplied): every emitted name is one the decision
\* includes, and every parsed name the decision includes is emitted.
C8_FilterDecision ==
    \A t \in Threads :
        args # None =>
            /\ \A i \in 1..Len(gauge[t]) : ClaimedInclude(Args, gauge[t][i].type)
            /\ (InCall(t) /\ pc[t] # "parse") =>
                   \A i \in 1..Len(parsed[t]) :
                       ClaimedInclude(Args, parsed[t][i].key)
                          => \E k \in 1..Len(gauge[t]) :
                                gauge[t][k].type = parsed[t][i].key

\* C3: an interface whose command returns non-zero contributes no triple, the
\* process goes on, and every other interface the enumerator yielded is
\* fetched in order and contributes its counters, wherever the failing one is.
C3_NonZeroSkipsOnlyThatInterface ==
    \A t \in Threads :
        args # None =>
            /\ IfacesOf(fetched[t])
                  \o (IF pc[t] = "parse" THEN Tail(ifaces[t]) ELSE ifaces[t])
                  = enumerated[t]
            /\ \A k \in 1..Len(fetched[t]) :
                  LET r == fetched[t][k]
                  IN  IF r.rc # 0
                      THEN TriplesOf(gauge[t], r.iface) = <<>>
                      ELSE (k < Len(fetched[t]) \/ pc[t] # "parse") =>
                              TriplesOf(gauge[t], r.iface)
                                 = RefTriples(Args, r.iface, r.data)
            /\ ((\E k \in 1..Len(fetched[t]) : fetched[t][k].rc # 0)
                   /\ fatal = "none") =>
                  /\ pc[t] # "aborted"
                  /\ pc[t] = "exited" => textfile = Some(gauge[t])

C3_Witness ==
    \E t \in Threads :
        /\ pc[t] \in {"responded", "check_oneshot"}
        /\ Len(fetched[t]) = 2
        /\ fetched[t][1].rc # 0
        /\ fetched[t][2].rc = 0
        /\ TriplesOf(gauge[t], fetched[t][2].iface) # <<>>
        /\ Running

\* C10: concurrent scrapes do not interfere: at every point of every
\* interleaving the gauge of a scrape, and the snapshot it returns, is the
\* one it would build running alone on the command results it got.
C10_ScrapesIndependent ==
    \A t \in Handlers :
        /\ pc[t] = "parse" =>
              gauge[t] = Alone(Args, Front(fetched[t]))
                            \o RefTriples(Args, Last(fetched[t]).iface,
                                          SubSeq(data[t], 1, idx[t] - 1))
        /\ pc[t] = "next_iface" => gauge[t] = Alone(Args, fetched[t])
        /\ response[t] # None =>
              /\ response[t][1] = Alone(Args, fetched[t])
              /\ IfacesOf(fetched[t]) = enumerated[t]

C10_Witness ==
    /\ pc["h1"] = "parse" /\ pc["h2"] = "parse"
    /\ Head(ifaces["h1"]) = Head(ifaces["h2"])
    /\ key_set["h1"] \cap key_set["h2"] # {}
    /\ idx["h1"] # idx["h2"]
    /\ gauge["h1"] # <<>> /\ gauge["h2"] # <<>>

IsOneshot == args # None /\ TruthyStr(Args.textfile_name) /\ Args.oneshot

\* C4: in one-shot file mode, whatever the interval, there is one collection
\* (one enumeration, one fetch per interface), one write of the file, no
\* sleep and no second cycle, and the process then exits with status 0.
C4_OneshotRunsOnce ==
    IsOneshot =>
        /\ ticks <= 1 /\ writes <= 1 /\ slept = <<>>
        /\ \A i, j \in 1..Len(fetched["main"]) :
              i # j => fetched["main"][i].iface # fetched["main"][j].iface
        /\ writes = 1 =>
              /\ pc["main"] \in {"check_oneshot", "exited"}
              /\ ticks = 1
              /\ IfacesOf(fetched["main"]) = enumerated["main"]
              /\ textfile = Some(gauge["main"])
        /\ pc["main"] = "exited" =>
              IF fatal = "none"
              THEN exit_status = Some(0) /\ writes = 1
              ELSE exit_status = Some(1) /\ writes = 0

C4_Witness ==
    /\ IsOneshot
    /\ argv.interval = Some(2)
    /\ exit_status = Some(0)
    /\ writes = 1 /\ ticks = 1
    /\ Len(fetched["main"]) = 2
    /\ textfile # Some(<<>>)

\* C2: in every publication mode a collection that hits a fatal environment
\* error ends the whole process with status 1.
C2_FatalTerminates ==
    fatal # "none" => exit_status = Some(1)

\* C5: in periodic file mode every sleep lasts the interval that was given
\* (5 only when none was given), collections, writes and sleeps alternate,
\* and without a fatal environment error the process never ends.
C5_PeriodicForever ==
    (args # None /\ mode = "periodic-file-write") =>
        /\ \A i \in 1..Len(slept) :
              slept[i] = IF argv.interval # None THEN argv.interval[1] ELSE 5
        /\ Len(slept) <= writes /\ writes <= Len(slept) + 1
        /\ writes <= ticks /\ ticks <= writes + 1
        /\ fatal = "none" => Running

\* C6: --interval (any value) or --oneshot supplied with --listen, on a
\* command line that is otherwise well formed, is rejected: exit status 1
\* before any collection and before the HTTP endpoint starts.
C6_MisuseRejected ==
    (/\ ArgparseOk(argv)
     /\ argv.listen # None
     /\ argv.textfile_name = None
     /\ argv.interval # None \/ argv.oneshot
     /\ pc["main"] # "start") =>
        exit_status = Some(1) /\ ticks = 0 /\ ~http_started

\* C7: an accepted configuration enters exactly one publication mode: never
\* both the HTTP endpoint and the file, and never none of them.
C7_ExactlyOneMode ==
    args # None =>
        /\ ~(http_started /\ (writes > 0 \/ mode # "continuous-serve"))
        /\ pc["main"] \notin {"start", "dispatch"} =>
              mode \in {"continuous-serve", "periodic-file-write",
                        "one-shot-file-write"}

====
